---- MODULE Spec2Model ----
(***************************************************************************)
(* Model of bitcoin-fee-model: the dense matrix engine (src/matrix.rs),    *)
(* the matrix codec (src/matrix_serde.rs), the normalisation and forward   *)
(* pass (src/model_data.rs) and the estimation facade (src/lib.rs).        *)
(*                                                                         *)
(* f32 values are modelled as records: a finite value on the integer grid, *)
(* an infinity with a sign, or NaN.  Addition and multiplication of finite *)
(* values are exact; division of finite values rounds toward zero to the   *)
(* grid.  The sign of zero is not tracked (every stored zero is +0.0).     *)
(***************************************************************************)
EXTENDS Integers, Sequences, FiniteSets, Bags, TLC

(* ---------------------------------------------------------------------- *)
(* Bounds of the model                                                     *)
(* ---------------------------------------------------------------------- *)
MaxTarget == 3       \* block_target ranges over 1..MaxTarget
MaxChain == 1        \* longest chain of matrix operations fed by results
MaxDim == 2          \* Matrix::new is called with sizes in 0..MaxDim

(* ---------------------------------------------------------------------- *)
(* f32                                                                     *)
(* ---------------------------------------------------------------------- *)
F(n) == [c |-> "fin", v |-> n]
NaN == [c |-> "nan", v |-> 0]
PInf == [c |-> "inf", v |-> 1]
NInf == [c |-> "inf", v |-> -1]

Abs(n) == IF n < 0 THEN -n ELSE n
Sgn(n) == IF n < 0 THEN -1 ELSE 1
\* integer quotient rounded toward zero, d # 0
TruncDiv(n, d) == Sgn(n) * Sgn(d) * (Abs(n) \div Abs(d))

FNeg(a) == IF a.c = "nan" THEN NaN ELSE [c |-> a.c, v |-> -a.v]

FAdd(a, b) ==
    IF a.c = "nan" \/ b.c = "nan" THEN NaN
    ELSE IF a.c = "inf" /\ b.c = "inf" THEN (IF a.v = b.v THEN a ELSE NaN)
    ELSE IF a.c = "inf" THEN a
    ELSE IF b.c = "inf" THEN b
    ELSE F(a.v + b.v)

FSub(a, b) == FAdd(a, FNeg(b))

FMul(a, b) ==
    IF a.c = "nan" \/ b.c = "nan" THEN NaN
    ELSE IF a.c = "inf" \/ b.c = "inf"
         THEN (IF a.v = 0 \/ b.v = 0 THEN NaN
               ELSE [c |-> "inf", v |-> Sgn(a.v) * Sgn(b.v)])
    ELSE F(a.v * b.v)

FDiv(a, b) ==
    IF a.c = "nan" \/ b.c = "nan" THEN NaN
    ELSE IF a.c = "inf" THEN (IF b.c = "inf" THEN NaN
                              ELSE [c |-> "inf", v |-> a.v * Sgn(b.v)])
    ELSE IF b.c = "inf" THEN F(0)
    ELSE IF b.v = 0 THEN (IF a.v = 0 THEN NaN
                          ELSE [c |-> "inf", v |-> Sgn(a.v)])
    ELSE F(TruncDiv(a.v, b.v))

\* a < b on f32: false as soon as one side is NaN
FLt(a, b) ==
    IF a.c = "nan" \/ b.c = "nan" THEN FALSE
    ELSE IF a.c = "inf" THEN a.v = -1 /\ b # a
    ELSE IF b.c = "inf" THEN b.v = 1
    ELSE a.v < b.v

\* f32::max: a NaN operand is ignored
FMax(a, b) ==
    IF a.c = "nan" THEN b
    ELSE IF b.c = "nan" THEN a
    ELSE IF FLt(a, b) THEN b ELSE a

FRow(s) == [j \in DOMAIN s |-> F(s[j])]
FMat(rows) == [i \in DOMAIN rows |-> FRow(rows[i])]

(* ---------------------------------------------------------------------- *)
(* Results                                                                 *)
(* ---------------------------------------------------------------------- *)
Ok(x) == [tag |-> "Ok", v |-> x]
Err(e) == [tag |-> "Err", e |-> e]
IsOk(r) == r.tag = "Ok"
IsErr(r) == r.tag = "Err"
\* a panic of the handler (an index out of bounds): no value is returned
Panic(msg) == [tag |-> "Panic", msg |-> msg]

IncompatibleDotMatrix(a, b) == [kind |-> "IncompatibleDotMatrix", a |-> a, b |-> b]
IncompatibleAddMatrix(a, b) == [kind |-> "IncompatibleAddMatrix", a |-> a, b |-> b]
MissingMeanData(f) == [kind |-> "MissingMeanData", field |-> f]
MissingStdData(f) == [kind |-> "MissingStdData", field |-> f]

(* ---------------------------------------------------------------------- *)
(* Matrix engine: Matrix(Vec<Vec<f32>>), a sequence of rows                *)
(* ---------------------------------------------------------------------- *)
\* Matrix::size: (rows, length of the first row), (0,0) without rows
Size(m) == <<Len(m), IF Len(m) > 0 THEN Len(m[1]) ELSE 0>>

New(size) == [i \in 1..size[1] |-> [j \in 1..size[2] |-> F(0)]]

\* mutant: every element becomes a row of its own
FromArrayColumn(vec) == [i \in 1..Len(vec) |-> <<vec[i]>>]

FromArray(vec) == <<vec>>

Transpose(m) ==
    LET size == Size(m)
    IN  [k \in 1..size[2] |-> [i \in 1..size[1] |-> m[i][k]]]

RECURSIVE DotAcc(_, _, _, _, _, _)
\* the inner loop of dot: acc += self[i][k] * other[k][j] for k up to n
DotAcc(self, other, i, j, k, acc) ==
    IF k > Size(self)[2] THEN acc
    ELSE DotAcc(self, other, i, j, k + 1,
                FAdd(acc, FMul(self[i][k], other[k][j])))

Dot(self, other) ==
    LET size_self == Size(self)
        size_other == Size(other)
    IN  IF size_self[2] # size_other[1]
        THEN Err(IncompatibleDotMatrix(size_self, size_other))
        ELSE Ok([i \in 1..size_self[1] |->
                   [j \in 1..size_other[2] |->
                      DotAcc(self, other, i, j, 1, F(0))]])

\* mutant: only the widths of the operands are compared
AddWidthOnly(self, other) ==
    LET size_self == Size(self)
        size_other == <<1, Len(other)>>
    IN  IF size_self[2] # size_other[2]
        THEN Err(IncompatibleAddMatrix(size_self, size_other))
        ELSE Ok([i \in 1..1 |->
                   [j \in 1..size_self[2] |-> FAdd(self[1][j], other[j])]])

Add(self, other) ==
    LET size_self == Size(self)
        size_other == <<1, Len(other)>>
    IN  IF size_self # size_other
        THEN Err(IncompatibleAddMatrix(size_self, size_other))
        ELSE Ok([i \in 1..1 |->
                   [j \in 1..size_self[2] |-> FAdd(self[1][j], other[j])]])

\* mutant: every entry below zero becomes zero, whatever alpha is
ReluClamp(self, alpha) ==
    LET size_self == Size(self)
    IN  [i \in 1..size_self[1] |->
           [j \in 1..size_self[2] |->
              IF FLt(self[i][j], F(0)) THEN F(0) ELSE self[i][j]]]

Relu(self, alpha) ==
    LET size_self == Size(self)
    IN  [i \in 1..size_self[1] |->
           [j \in 1..size_self[2] |->
              IF FLt(self[i][j], F(0)) THEN FMul(self[i][j], alpha)
              ELSE self[i][j]]]

(* ---------------------------------------------------------------------- *)
(* Forward pass and normalisation: ModelData                               *)
(* ---------------------------------------------------------------------- *)
\* slope of the argument-less relu() that predict calls: entries below zero
\* become 0 (the expected b3 of tests::test_vector holds exact zeros)
HardSlope == F(0)

\* mutant: the last layer's value is returned as it is
FloorNone(c) == c

\* the last line of predict: c2[0][0].max(1.0)
Floor(c) == FMax(c, F(1))

Step(name, out) == [step |-> name, out |-> out]

\* predict: every `?` returns the error of its step; trace lists the steps
\* that ran, in order, with what each produced
PredictRun(self, input) ==
    LET w == self.weights
        a1 == Dot(input, w.l0_kernel)
        a2 == Add(a1.v, w.l0_bias)
        a3 == Relu(a2.v, HardSlope)
        b1 == Dot(a3, w.l1_kernel)
        b2 == Add(b1.v, w.l1_bias)
        b3 == Relu(b2.v, HardSlope)
        c1 == Dot(b3, w.l2_kernel)
        c2 == Add(c1.v, w.l2_bias)
        ta == <<Step("a1", a1)>>
        tb == ta \o <<Step("a2", a2)>>
        tc == tb \o <<Step("a3", Ok(a3)), Step("b1", b1)>>
        td == tc \o <<Step("b2", b2)>>
        te == td \o <<Step("b3", Ok(b3)), Step("c1", c1)>>
        tf == te \o <<Step("c2", c2)>>
    IN  IF IsErr(a1) THEN [ret |-> a1, trace |-> ta]
        ELSE IF IsErr(a2) THEN [ret |-> a2, trace |-> tb]
        ELSE IF IsErr(b1) THEN [ret |-> b1, trace |-> tc]
        ELSE IF IsErr(b2) THEN [ret |-> b2, trace |-> td]
        ELSE IF IsErr(c1) THEN [ret |-> c1, trace |-> te]
        ELSE IF IsErr(c2) THEN [ret |-> c2, trace |-> tf]
        ELSE IF Len(c2.v[1]) = 0
        THEN [ret |-> Panic("index out of bounds"), trace |-> tf]
        ELSE [ret |-> Ok(Floor(c2.v[1][1])), trace |-> tf]

Predict(self, input) == PredictRun(self, input).ret

\* mutant: a missing input counts as 1.0
InputOrOne(input, field) == IF field \in DOMAIN input THEN input[field] ELSE F(1)

\* input.get(field).unwrap_or(&0.0)
InputOr(input, field) == IF field \in DOMAIN input THEN input[field] ELSE F(0)

\* mutant: a missing std counts as 1.0
StdOfDefault(self, field) ==
    IF field \in DOMAIN self.norm.std THEN Ok(self.norm.std[field])
    ELSE Ok(F(1))

StdOf(self, field) ==
    IF field \in DOMAIN self.norm.std THEN Ok(self.norm.std[field])
    ELSE Err(MissingStdData(field))

MeanOf(self, field) ==
    IF field \in DOMAIN self.norm.mean THEN Ok(self.norm.mean[field])
    ELSE Err(MissingMeanData(field))

\* mutant: the division is applied before the mean is subtracted
NormalizedDivFirst(x, mean, std) == FSub(FDiv(x, std), mean)

\* (x - mean) / std
Normalized(x, mean, std) == FDiv(FSub(x, mean), std)

RECURSIVE NormLoop(_, _, _, _)
\* the loop of norm over self.norm.fields, result being the vector so far
NormLoop(self, input, i, result) ==
    IF i > Len(self.norm.fields) THEN Ok(FromArray(result))
    ELSE LET field == self.norm.fields[i]
             x == InputOr(input, field)
             std == StdOf(self, field)
             mean == MeanOf(self, field)
         IN  IF IsErr(std) THEN std
             ELSE IF IsErr(mean) THEN mean
             ELSE NormLoop(self, input, i + 1,
                           Append(result, Normalized(x, mean.v, std.v)))

Norm(self, input) == NormLoop(self, input, 1, <<>>)

Call(fn, who, out) == [fn |-> fn, who |-> who, out |-> out]

\* norm_predict: calls lists the methods of model `who` that were invoked
NormPredictRun(self, who, input) ==
    LET n == Norm(self, input)
        p == PredictRun(self, n.v)
    IN  IF IsErr(n)
        THEN [ret |-> n, calls |-> <<Call("norm", who, n)>>, trace |-> <<>>]
        ELSE [ret |-> p.ret,
              calls |-> <<Call("norm", who, n), Call("predict", who, p.ret)>>,
              trace |-> p.trace]

NormPredict(self, input) == NormPredictRun(self, "self", input).ret

(* ---------------------------------------------------------------------- *)
(* Codec of Matrix<W, H>: a row-major buffer of W * H values               *)
(* ---------------------------------------------------------------------- *)
\* what the wire holds: a sequence whose elements are numbers or sequences
\* of numbers
Num(f) == [t |-> "num", f |-> f]
Row(s) == [t |-> "seq", s |-> s]

WidthError(row, expected, found) ==
    [kind |-> "width", row |-> row, expected |-> expected, found |-> found]
HeightError(expected, found) ==
    [kind |-> "height", expected |-> expected, found |-> found]
\* the deserializer's own error: element `at` is not of the expected type
TypeError(at) == [kind |-> "type", at |-> at]

FromBuffer(W, H, buffer) == [w |-> W, h |-> H, buffer |-> buffer]

\* self[i] of Matrix<W, H>: row i (0-based) of the buffer
Index(self, i) == SubSeq(self.buffer, i * self.w + 1, (i + 1) * self.w)

\* Serialize: a sequence of H elements, element i being row i
Serialize(self) == [i \in 1..self.h |-> Row(Index(self, i - 1))]

\* mutant: rows are numbered from 1 in the error
FetchRowOneBased(v, row, W) ==
    IF Len(v) # W THEN Err(WidthError(row + 1, W, Len(v))) ELSE Ok(v)

\* mutant: the width of a row is not checked
FetchRowUnchecked(v, row, W) == Ok(v)

\* the closure fetch_row: v is appended to the buffer unless its length
\* differs from W
FetchRow(v, row, W) ==
    IF Len(v) # W THEN Err(WidthError(row, W, Len(v))) ELSE Ok(v)

RECURSIVE VisitFlat(_, _, _)
\* the loop of the H = 1 branch: every element is read as one f32
VisitFlat(access, i, v) ==
    IF i > Len(access) THEN Ok(v)
    ELSE IF access[i].t # "num" THEN Err(TypeError(i - 1))
    ELSE VisitFlat(access, i + 1, Append(v, access[i].f))

RECURSIVE VisitRows(_, _, _, _)
\* the loop of the H # 1 branch: every element is read as a Vec<f32> and
\* fetched as row i - 1
VisitRows(access, W, i, buffer) ==
    IF i > Len(access) THEN Ok([rows |-> i - 1, buffer |-> buffer])
    ELSE IF access[i].t # "seq" THEN Err(TypeError(i - 1))
    ELSE LET fetched == FetchRow(access[i].s, i - 1, W)
         IN  IF IsErr(fetched) THEN fetched
             ELSE VisitRows(access, W, i + 1, buffer \o fetched.v)

VisitSeq(access, W, H) ==
    IF H = 1
    THEN LET v == VisitFlat(access, 1, <<>>)
             fetched == FetchRow(v.v, 0, W)
         IN  IF IsErr(v) THEN v
             ELSE IF IsErr(fetched) THEN fetched
             ELSE Ok(FromBuffer(W, H, fetched.v))
    ELSE LET r == VisitRows(access, W, 1, <<>>)
         IN  IF IsErr(r) THEN r
             ELSE IF r.v.rows # H THEN Err(HeightError(H, r.v.rows))
             ELSE Ok(FromBuffer(W, H, r.v.buffer))

(* ---------------------------------------------------------------------- *)
(* Facade: FeeModel                                                        *)
(* ---------------------------------------------------------------------- *)
\* format!("b{}", i) for i in 0..=15
BKeys == <<"b0", "b1", "b2", "b3", "b4", "b5", "b6", "b7",
           "b8", "b9", "b10", "b11", "b12", "b13", "b14", "b15">>

LowThreshold == 2

\* weekday().num_days_from_monday() of a unix time (1970-01-01: Thursday)
DayOfWeek(utc) == ((utc \div 86400) + 3) % 7
Hour(utc) == (utc \div 3600) % 24

\* the HashMap that estimate_with_buckets fills before it routes
BuildInput(block_target, utc, fee_buckets, last_block_ts) ==
    [k \in {"confirms_in", "day_of_week", "hour", "delta_last"}
            \cup {BKeys[i] : i \in 1..16} |->
       IF k = "confirms_in" THEN F(block_target)
       ELSE IF k = "day_of_week" THEN F(DayOfWeek(utc))
       ELSE IF k = "hour" THEN F(Hour(utc))
       ELSE IF k = "delta_last" THEN F(utc - last_block_ts)
       ELSE F(fee_buckets[CHOOSE i \in 1..16 : BKeys[i] = k])]

\* mutant: the threshold itself is routed to the high model
UsesLowStrict(block_target) == block_target < LowThreshold

UsesLow(block_target) == block_target <= LowThreshold

\* timestamp is <<>> for None and <<t>> for Some(t); now is Utc::now()
EstimateRun(lowm, highm, block_target, timestamp, now, fee_buckets, last_block_ts) ==
    LET utc == IF timestamp = <<>> THEN now ELSE timestamp[1]
        input == BuildInput(block_target, utc, fee_buckets, last_block_ts)
    IN  IF Len(fee_buckets) < 16
        THEN [ret |-> Panic("index out of bounds"), calls |-> <<>>,
              trace |-> <<>>]
        ELSE IF UsesLow(block_target)
        THEN NormPredictRun(lowm, "low", input)
        ELSE NormPredictRun(highm, "high", input)

(* ---------------------------------------------------------------------- *)
(* Data: models                                                            *)
(* ---------------------------------------------------------------------- *)
Fields20 == <<"confirms_in">> \o BKeys \o <<"delta_last", "day_of_week", "hour">>
FeatureSet == {Fields20[i] : i \in 1..Len(Fields20)}

Kernel(r, c, s) == [i \in 1..r |-> [j \in 1..c |-> F((((i * s) + j) % 3) - 1)]]

\* m without the key k
Without(m, k) == [x \in (DOMAIN m) \ {k} |-> m[x]]

ModelLow ==
    [norm |-> [mean |-> [f \in FeatureSet |-> F(1)],
               std |-> [f \in FeatureSet |-> F(2)],
               fields |-> Fields20],
     weights |-> [l0_kernel |-> Kernel(20, 2, 1), l0_bias |-> FRow(<<1, -2>>),
                  l1_kernel |-> FMat(<<<<1, -1>>, <<2, 1>>>>),
                  l1_bias |-> FRow(<<0, 1>>),
                  l2_kernel |-> FMat(<<<<1>>, <<-1>>>>),
                  l2_bias |-> FRow(<<2>>)],
     alpha |-> F(2)]

ModelHigh ==
    [norm |-> [mean |-> [f \in FeatureSet |-> F(0)],
               std |-> [f \in FeatureSet |-> F(3)],
               fields |-> Fields20],
     weights |-> [l0_kernel |-> Kernel(20, 2, 2), l0_bias |-> FRow(<<-1, 0>>),
                  l1_kernel |-> FMat(<<<<1, 1>>, <<-1, 2>>>>),
                  l1_bias |-> FRow(<<1, -1>>),
                  l2_kernel |-> FMat(<<<<2>>, <<1>>>>),
                  l2_bias |-> FRow(<<-1>>)],
     alpha |-> F(0)]

ModelLowNoStd ==
    [ModelLow EXCEPT !.norm.std = Without(ModelLow.norm.std, "b3")]
ModelHighNoMean ==
    [ModelHigh EXCEPT !.norm.mean = Without(ModelHigh.norm.mean, "hour")]

\* the pairs FeeModel::new is called with
FeeModels == {<<ModelLow, ModelHigh>>, <<ModelLowNoStd, ModelHighNoMean>>}

SmallFields == <<"confirms_in", "delta_last", "hour">>

ModelSmall ==
    [norm |-> [mean |-> [f \in {"confirms_in", "delta_last", "hour"} |->
                           IF f = "confirms_in" THEN F(1)
                           ELSE IF f = "delta_last" THEN F(5) ELSE F(3)],
               std |-> [f \in {"confirms_in", "delta_last", "hour"} |->
                           IF f = "hour" THEN F(1) ELSE F(2)],
               fields |-> SmallFields],
     weights |-> [l0_kernel |-> FMat(<<<<1, -1>>, <<0, 2>>, <<-1, 1>>>>),
                  l0_bias |-> FRow(<<0, -1>>),
                  l1_kernel |-> FMat(<<<<1, -2>>, <<1, 1>>>>),
                  l1_bias |-> FRow(<<-1, 0>>),
                  l2_kernel |-> FMat(<<<<1>>, <<1>>>>),
                  l2_bias |-> FRow(<<-3>>)],
     alpha |-> F(2)]

ModelNoStd == [ModelSmall EXCEPT !.norm.std = Without(@, "delta_last")]
ModelNoMean == [ModelSmall EXCEPT !.norm.mean = Without(@, "hour")]
ModelNoBoth == [ModelSmall EXCEPT !.norm.std = Without(@, "delta_last"),
                                  !.norm.mean = Without(@, "delta_last")]
ModelTwoMissing == [ModelSmall EXCEPT !.norm.std = Without(@, "hour"),
                                      !.norm.mean = Without(@, "confirms_in")]
ModelZeroStd == [ModelSmall EXCEPT !.norm.std["delta_last"] = F(0)]
ModelBadKernel == [ModelSmall EXCEPT
                     !.weights.l1_kernel = FMat(<<<<1, 0>>, <<0, 1>>, <<1, 1>>>>)]
ModelBadBias == [ModelSmall EXCEPT !.weights.l0_bias = FRow(<<0, 1, 2>>)]
ModelBadOut == [ModelSmall EXCEPT
                  !.weights.l2_kernel = FMat(<<<<1>>, <<1>>, <<1>>>>)]
ModelNanStd == [ModelSmall EXCEPT !.norm.std["confirms_in"] = NaN]
ModelInfMean == [ModelSmall EXCEPT !.norm.mean["hour"] = PInf, !.alpha = F(1)]

Models == {ModelSmall, ModelNoStd, ModelNoMean, ModelNoBoth, ModelTwoMissing,
           ModelZeroStd, ModelBadKernel, ModelBadBias, ModelBadOut,
           ModelNanStd, ModelInfMean}

(* ---------------------------------------------------------------------- *)
(* Data: inputs of the operations                                          *)
(* ---------------------------------------------------------------------- *)
\* Some(t) timestamps and the readings of Utc::now()
Timestamps == {446400}
Nows == {90000}
LastBlockTs == {300, 100000}

\* tests::BUCKETS, an empty histogram, and a slice that is one entry short
Buckets == <<2, 0, 0, 2, 5, 6, 14, 20, 95, 394, 4449, 1954, 282, 193, 33, 19>>
BucketInputs == {Buckets, [i \in 1..16 |-> 0], [i \in 1..15 |-> 1]}

MapOf(c, d, h) ==
    [k \in {"confirms_in", "delta_last", "hour"} |->
       IF k = "confirms_in" THEN c ELSE IF k = "delta_last" THEN d ELSE h]

InputMaps ==
    {MapOf(F(2), F(9), F(7)),
     MapOf(F(1), F(5), F(3)),
     MapOf(F(-4), F(0), PInf),
     [k \in {"confirms_in", "delta_last", "b0"} |->
        IF k = "b0" THEN F(9) ELSE MapOf(F(3), F(1), F(0))[k]]}

PredictInputs ==
    {FromArray(FRow(<<1, 0, -1>>)), FromArray(FRow(<<-2, 3, 1>>)),
     FromArray(FRow(<<4, 1, 0>>)), FromArray(FRow(<<1, 1>>)),
     FMat(<<<<1, 0, 0>>, <<0, 1, 0>>>>), FromArray(<<F(1), PInf, F(0)>>)}

MatInputs ==
    {FMat(<<<<1, -2>>>>), FMat(<<<<1, -1>>, <<0, 2>>>>), FMat(<<<<-1>>, <<2>>>>),
     FMat(<<<<-3>>>>), <<>>, << <<>>, <<>> >>, FMat(<<<<0, 1, -1>>>>),
     <<<<NInf, NaN>>>>}
BiasInputs == {<<>>, FRow(<<1>>), FRow(<<-1, 2>>)}
Alphas == {F(0), F(1), F(2)}
Dims == 0..MaxDim

\* typed matrices Matrix<W, H>
TypedInputs ==
    {FromBuffer(2, 1, FRow(<<1, -2>>)), FromBuffer(1, 1, FRow(<<7>>)),
     FromBuffer(2, 2, FRow(<<1, 2, 3, 4>>)), FromBuffer(1, 2, FRow(<<5, 6>>)),
     FromBuffer(0, 1, <<>>), FromBuffer(2, 0, <<>>),
     FromBuffer(2, 1, <<NaN, NInf>>)}

WireInputs ==
    {<<>>, <<Num(F(1))>>, <<Num(F(1)), Num(F(2))>>,
     <<Num(F(1)), Num(F(2)), Num(F(3))>>,
     <<Row(FRow(<<1, 2>>))>>, <<Row(<<>>), Row(<<>>)>>,
     <<Row(FRow(<<1, 2>>)), Row(FRow(<<3, 4>>))>>,
     <<Row(FRow(<<1, 2>>)), Row(FRow(<<3>>))>>,
     <<Row(FRow(<<1>>)), Row(FRow(<<3, 4>>)), Row(<<>>)>>,
     <<Row(FRow(<<1>>)), Row(FRow(<<2>>)), Row(FRow(<<3>>))>>,
     <<Row(FRow(<<1, 2>>)), Num(F(3))>>, <<Num(F(1)), Row(FRow(<<2>>))>>}

(* ---------------------------------------------------------------------- *)
(* State                                                                   *)
(* ---------------------------------------------------------------------- *)
VARIABLES
    low,      \* FeeModel.low
    high,     \* FeeModel.high
    op,       \* the operation that ran last
    args,     \* its arguments
    ret,      \* what it returned
    calls,    \* the model methods it invoked, in order
    trace,    \* the steps of predict that ran, in order
    chain     \* how many results in a row were fed to a matrix operation

vars == <<low, high, op, args, ret, calls, trace, chain>>

\* FeeModel::new(low, high)
Init ==
    /\ \E fm \in FeeModels : low = fm[1] /\ high = fm[2]
    /\ op = "new"
    /\ args = <<>>
    /\ ret = Ok(<<>>)
    /\ calls = <<>>
    /\ trace = <<>>
    /\ chain = 0

EstimateWithBuckets ==
    \E block_target \in 1..MaxTarget,
       timestamp \in {<<>>} \cup {<<t>> : t \in Timestamps},
       now \in Nows, fee_buckets \in BucketInputs,
       last_block_ts \in LastBlockTs :
        LET run == EstimateRun(low, high, block_target, timestamp, now,
                               fee_buckets, last_block_ts)
        IN  /\ op' = "estimate_with_buckets"
            /\ args' = [block_target |-> block_target, timestamp |-> timestamp,
                        now |-> now, fee_buckets |-> fee_buckets,
                        last_block_ts |-> last_block_ts]
            /\ ret' = run.ret
            /\ calls' = run.calls
            /\ trace' = run.trace
            /\ chain' = 0
            /\ UNCHANGED <<low, high>>

PredictOp ==
    \E self \in Models, input \in PredictInputs :
        LET run == PredictRun(self, input)
        IN  /\ op' = "predict"
            /\ args' = [self |-> self, input |-> input]
            /\ ret' = run.ret
            /\ calls' = <<>>
            /\ trace' = run.trace
            /\ chain' = 0
            /\ UNCHANGED <<low, high>>

NormOp ==
    \E self \in Models, input \in InputMaps :
        /\ op' = "norm"
        /\ args' = [self |-> self, input |-> input]
        /\ ret' = Norm(self, input)
        /\ calls' = <<>>
        /\ trace' = <<>>
        /\ chain' = 0
        /\ UNCHANGED <<low, high>>

NormPredictOp ==
    \E self \in Models, input \in InputMaps :
        LET run == NormPredictRun(self, "self", input)
        IN  /\ op' = "norm_predict"
            /\ args' = [self |-> self, input |-> input]
            /\ ret' = run.ret
            /\ calls' = run.calls
            /\ trace' = run.trace
            /\ chain' = 0
            /\ UNCHANGED <<low, high>>

MatrixOps == {"dot", "add", "relu", "transpose", "new", "from_array"}

\* the last operation left a matrix that the next one may take as `self`
HasResult == op \in MatrixOps /\ IsOk(ret) /\ chain < MaxChain

Operands == MatInputs \cup (IF HasResult THEN {ret.v} ELSE {})

\* `self` is one of the inputs (c = 0) or the previous result (c = chain + 1)
TakenFrom(self, c) ==
    \/ self \in MatInputs /\ c = 0
    \/ HasResult /\ self = ret.v /\ c = chain + 1

DotOp ==
    \E self \in Operands, other \in MatInputs, c \in 0..MaxChain :
        /\ TakenFrom(self, c)
        /\ op' = "dot"
        /\ args' = [self |-> self, other |-> other]
        /\ ret' = Dot(self, other)
        /\ chain' = c
        /\ UNCHANGED <<low, high, calls, trace>>

AddOp ==
    \E self \in Operands, other \in BiasInputs, c \in 0..MaxChain :
        /\ TakenFrom(self, c)
        /\ op' = "add"
        /\ args' = [self |-> self, other |-> other]
        /\ ret' = Add(self, other)
        /\ chain' = c
        /\ UNCHANGED <<low, high, calls, trace>>

ReluOp ==
    \E self \in Operands, alpha \in Alphas, c \in 0..MaxChain :
        /\ TakenFrom(self, c)
        /\ op' = "relu"
        /\ args' = [self |-> self, alpha |-> alpha]
        /\ ret' = Ok(Relu(self, alpha))
        /\ chain' = c
        /\ UNCHANGED <<low, high, calls, trace>>

TransposeOp ==
    \E self \in Operands, c \in 0..MaxChain :
        /\ TakenFrom(self, c)
        /\ op' = "transpose"
        /\ args' = [self |-> self]
        /\ ret' = Ok(Transpose(self))
        /\ chain' = c
        /\ UNCHANGED <<low, high, calls, trace>>

NewOp ==
    \E size \in Dims \X Dims :
        /\ op' = "new"
        /\ args' = [size |-> size]
        /\ ret' = Ok(New(size))
        /\ chain' = 0
        /\ UNCHANGED <<low, high, calls, trace>>

FromArrayOp ==
    \E vec \in BiasInputs :
        /\ op' = "from_array"
        /\ args' = [vec |-> vec]
        /\ ret' = Ok(FromArray(vec))
        /\ chain' = 0
        /\ UNCHANGED <<low, high, calls, trace>>

SerializeOp ==
    \E self \in TypedInputs :
        /\ op' = "serialize"
        /\ args' = [self |-> self]
        /\ ret' = Ok(Serialize(self))
        /\ chain' = 0
        /\ UNCHANGED <<low, high, calls, trace>>

\* decoding against the destination shape [W, H] of either bytes that arrive
\* from outside or the bytes Serialize has just written; `from` holds the
\* matrix those bytes were written from
DeserializeOp ==
    \E W \in Dims, H \in Dims,
       access \in WireInputs \cup (IF op = "serialize" THEN {ret.v} ELSE {}) :
        /\ op' = "deserialize"
        /\ args' = [access |-> access, W |-> W, H |-> H,
                    from |-> IF op = "serialize" /\ access = ret.v
                             THEN <<args.self>> ELSE <<>>]
        /\ ret' = VisitSeq(access, W, H)
        /\ chain' = 0
        /\ UNCHANGED <<low, high, calls, trace>>

\* the evaluator and the facade
Next ==
    \/ EstimateWithBuckets
    \/ PredictOp
    \/ NormOp
    \/ NormPredictOp

Spec == Init /\ [][Next]_vars

\* the matrix engine and the codec, which read no model
InitEngine ==
    /\ Init
    /\ low = ModelLow
    /\ high = ModelHigh

NextEngine ==
    \/ DotOp
    \/ AddOp
    \/ ReluOp
    \/ TransposeOp
    \/ NewOp
    \/ FromArrayOp
    \/ SerializeOp
    \/ DeserializeOp

SpecEngine == InitEngine /\ [][NextEngine]_vars

(* ---------------------------------------------------------------------- *)
(* Properties of the facade and the evaluator (Spec)                       *)
(* ---------------------------------------------------------------------- *)
IsEstimate == op = "estimate_with_buckets" /\ Len(args.fee_buckets) >= 16

\* the calls of the last handler that evaluated a model
NormCalls == {i \in DOMAIN calls : calls[i].fn = "norm"}

\* C1: for every confirmation target, estimate_with_buckets evaluates exactly
\* one model, the low model when block_target <= 2 and the high model
\* otherwise, and returns that model's norm_predict result on the feature map
\* it built (for a bucket slice that holds the 16 entries it reads).
C1_RoutesByTarget ==
    IsEstimate =>
        LET who == IF args.block_target <= 2 THEN "low" ELSE "high"
            model == IF args.block_target <= 2 THEN low ELSE high
            utc == IF args.timestamp = <<>> THEN args.now
                   ELSE args.timestamp[1]
            input == BuildInput(args.block_target, utc, args.fee_buckets,
                                args.last_block_ts)
        IN  /\ Cardinality(NormCalls) = 1
            /\ \A i \in DOMAIN calls : calls[i].who = who
            /\ calls[1] = Call("norm", who, Norm(model, input))
            /\ ret = NormPredict(model, input)

C1_Witness ==
    /\ IsEstimate
    /\ args.block_target = 3
    /\ low # high
    /\ IsOk(ret)
    /\ calls[2].who = "high"
    /\ ret # NormPredict(low, BuildInput(3, args.now, args.fee_buckets,
                                         args.last_block_ts))

\* predict ran to its last step: c2 is the output of the last layer
RanAllLayers == Len(trace) = 8 /\ IsOk(trace[8].out) /\ IsOk(ret)
LastLayer == trace[8].out.v[1][1]

\* C2 (as claimed): predict returns the raw regression value c[0][0] of the
\* last layer, also when that value is below 1.0.
C2_ReturnsRaw == RanAllLayers => ret.v = LastLayer

\* C2 (amended): predict returns c[0][0] of the last layer when it is at
\* least 1.0, and 1.0 when it is below 1.0 or NaN.
C2_ReturnsFloored ==
    RanAllLayers =>
        ret.v = (IF LastLayer.c = "nan" \/ FLt(LastLayer, F(1)) THEN F(1)
                 ELSE LastLayer)

C2_Witness ==
    /\ op = "predict"
    /\ RanAllLayers
    /\ FLt(LastLayer, F(1))
    /\ ret.v = F(1)

\* C3: predict computes a = relu(dot(x, L0_kernel) + L0_bias, alpha),
\* b = relu(dot(a, L1_kernel) + L1_bias, alpha), c = dot(b, L2_kernel) +
\* L2_bias with the model's own alpha as the slope, no activation after
\* layer 2, and a shape error of a step is returned with no later step run.
C3_LayersUseModelAlpha ==
    op = "predict" =>
        LET x == args.input
            w == args.self.weights
            alpha == args.self.alpha
            n == Len(trace)
            Out(k) == trace[k].out
        IN  /\ n >= 1 /\ n <= 8
            /\ \A k \in 1..(n - 1) : IsOk(Out(k))
            /\ IsErr(Out(n)) => ret = Out(n)
            /\ IsOk(Out(n)) => n = 8
            /\ Out(1) = Dot(x, w.l0_kernel)
            /\ n >= 2 => Out(2) = Add(Out(1).v, w.l0_bias)
            /\ n >= 3 => Out(3).v = Relu(Out(2).v, alpha)
            /\ n >= 4 => Out(4) = Dot(Out(3).v, w.l1_kernel)
            /\ n >= 5 => Out(5) = Add(Out(4).v, w.l1_bias)
            /\ n >= 6 => Out(6).v = Relu(Out(5).v, alpha)
            /\ n >= 7 => Out(7) = Dot(Out(6).v, w.l2_kernel)
            /\ n >= 8 => Out(8) = Add(Out(7).v, w.l2_bias)

\* norm ran, directly or as the first call of norm_predict
NormRan == op \in {"norm", "norm_predict"}
NormOut == IF op = "norm" THEN ret ELSE calls[1].out
FieldIdx == DOMAIN args.self.norm.fields
FieldAt(i) == args.self.norm.fields[i]
HasStat(f) == f \in DOMAIN args.self.norm.std /\ f \in DOMAIN args.self.norm.mean
HasAllStats == \A i \in FieldIdx : HasStat(FieldAt(i))

\* C4: normalize never fails because of a missing input: a field absent from
\* the input map is read as 0.0, the output has one entry per field, in
\* field-list order, equal to (x - mean[field]) / std[field], and input keys
\* outside the field list have no effect.
C4_MissingInputIsZero ==
    (NormRan /\ HasAllStats) =>
        LET X(f) == IF f \in DOMAIN args.input THEN args.input[f] ELSE F(0)
            listed == {FieldAt(i) : i \in FieldIdx} \cap DOMAIN args.input
        IN  /\ IsOk(NormOut)
            /\ Len(NormOut.v) = 1
            /\ Len(NormOut.v[1]) = Len(args.self.norm.fields)
            /\ \A i \in FieldIdx :
                   NormOut.v[1][i] =
                       FDiv(FSub(X(FieldAt(i)), args.self.norm.mean[FieldAt(i)]),
                            args.self.norm.std[FieldAt(i)])
            /\ NormOut = Norm(args.self, [f \in listed |-> args.input[f]])

C4_Witness ==
    /\ op = "norm"
    /\ HasAllStats
    /\ IsOk(ret)
    /\ "b0" \in DOMAIN args.input
    /\ \E i \in FieldIdx :
          /\ FieldAt(i) \notin DOMAIN args.input
          /\ ret.v[1][i] = FDiv(FNeg(args.self.norm.mean[FieldAt(i)]),
                                 args.self.norm.std[FieldAt(i)])
          /\ ret.v[1][i] # F(0)

\* the first field of the list that lacks a std or a mean
FirstMissing ==
    FieldAt(CHOOSE i \in FieldIdx :
               /\ ~HasStat(FieldAt(i))
               /\ \A k \in 1..(i - 1) : HasStat(FieldAt(k)))

\* C5: when a field of the field list has no mean or no std, normalize and
\* norm_predict fail with the missing-stat error naming the first such field,
\* no vector is returned and predict is not invoked, whether or not the input
\* map holds the field.
C5_MissingStatFails ==
    (NormRan /\ ~HasAllStats) =>
        /\ NormOut = Err(IF FirstMissing \notin DOMAIN args.self.norm.std
                         THEN MissingStdData(FirstMissing)
                         ELSE MissingMeanData(FirstMissing))
        /\ ret = NormOut
        /\ \A k \in DOMAIN calls : calls[k].fn # "predict"
        /\ trace = <<>>

C5_Witness ==
    /\ op = "norm_predict"
    /\ ~HasAllStats
    /\ FirstMissing \in DOMAIN args.input
    /\ ret = Err(MissingStdData(FirstMissing))
    /\ Len(calls) = 1

\* == on f32: NaN equals nothing
FEq(a, b) == a.c # "nan" /\ b.c # "nan" /\ a = b

\* the fields whose input equals the stored mean
AtMean == {i \in FieldIdx : /\ HasStat(FieldAt(i))
                            /\ FieldAt(i) \in DOMAIN args.input
                            /\ FEq(args.input[FieldAt(i)],
                                   args.self.norm.mean[FieldAt(i)])}

\* C6 (as claimed): if input[field] equals mean[field] the normalized value
\* of the field is exactly 0 for every std stored in the model, a std of 0
\* included.
C6_MeanGivesZeroAnyStd ==
    (NormRan /\ IsOk(NormOut)) => \A i \in AtMean : NormOut.v[1][i] = F(0)

\* C6 (amended): if input[field] equals mean[field] and is finite, the
\* normalized value of the field is exactly 0 for every stored std that is a
\* number other than 0.
C6_MeanGivesZero ==
    (NormRan /\ IsOk(NormOut)) =>
        \A i \in AtMean :
            (/\ args.self.norm.mean[FieldAt(i)].c = "fin"
             /\ args.self.norm.std[FieldAt(i)] \notin {F(0), NaN})
            => NormOut.v[1][i] = F(0)

C6_Witness ==
    /\ op = "norm"
    /\ IsOk(ret)
    /\ \E i \in AtMean :
          /\ args.self.norm.mean[FieldAt(i)] = F(5)
          /\ args.self.norm.std[FieldAt(i)] = F(2)
          /\ ret.v[1][i] = F(0)

(* ---------------------------------------------------------------------- *)
(* Properties of the codec and the matrix engine (SpecEngine)              *)
(* ---------------------------------------------------------------------- *)
\* the bytes decoded were written by Serialize from a matrix of shape [W, H]
\* and are decoded under that same shape
IsRoundTrip ==
    /\ op = "deserialize"
    /\ args.from # <<>>
    /\ args.from[1].w = args.W
    /\ args.from[1].h = args.H

\* C7: decoding the output of encode under the same destination shape
\* succeeds and yields the original matrix, for every shape [W, H], height 1
\* included.
C7_RoundTrip == IsRoundTrip => ret = Ok(args.from[1])

\* the wire is a sequence of rows / a flat sequence of numbers
AllRows == \A i \in DOMAIN args.access : args.access[i].t = "seq"
AllNums == \A i \in DOMAIN args.access : args.access[i].t = "num"
BadRows == {i \in DOMAIN args.access : Len(args.access[i].s) # args.W}
FirstBadRow == CHOOSE i \in BadRows : \A k \in BadRows : i <= k

\* C8: decoding a sequence of rows against [W, H] with H > 1 fails exactly
\* when some row has a length other than W (the error gives the index of the
\* first such row, W and the length found) or, all rows having length W, the
\* number of rows differs from H (the error gives H and the count found);
\* for H = 1 a flat sequence of a length other than W is a width mismatch at
\* row 0.  A failed decode produces no matrix.
C8_DecodeShapeErrors ==
    /\ (op = "deserialize" /\ args.H > 1 /\ AllRows) =>
          IF BadRows # {}
          THEN ret = Err(WidthError(FirstBadRow - 1, args.W,
                                    Len(args.access[FirstBadRow].s)))
          ELSE IF Len(args.access) # args.H
          THEN ret = Err(HeightError(args.H, Len(args.access)))
          ELSE IsOk(ret)
    /\ (op = "deserialize" /\ args.H = 1 /\ AllNums) =>
          IF Len(args.access) # args.W
          THEN ret = Err(WidthError(0, args.W, Len(args.access)))
          ELSE IsOk(ret)

C8_Witness ==
    /\ op = "deserialize"
    /\ args.H = 2
    /\ AllRows
    /\ Len(args.access) = 3
    /\ BadRows = {1, 3}
    /\ ret = Err(WidthError(0, 2, 1))

\* the rows and columns a matrix really has
Rows(m) == Len(m)
Cols(m) == IF m = <<>> THEN 0 ELSE Len(m[1])
HasShape(m, r, c) == Len(m) = r /\ \A i \in 1..Len(m) : Len(m[i]) = c

C10_ShapeErrors ==
    /\ op = "dot" =>
          LET sa == <<Rows(args.self), Cols(args.self)>>
              sb == <<Rows(args.other), Cols(args.other)>>
          IN  IF sa[2] = sb[1]
              THEN IsOk(ret) /\ HasShape(ret.v, sa[1], sb[2])
              ELSE ret = Err(IncompatibleDotMatrix(sa, sb))
    /\ op = "add" =>
          LET sa == <<Rows(args.self), Cols(args.self)>>
              sb == <<1, Len(args.other)>>
          IN  IF sa = sb
              THEN IsOk(ret)
              ELSE ret = Err(IncompatibleAddMatrix(sa, sb))

C10_Witness ==
    /\ op = "add"
    /\ Rows(args.self) = 2
    /\ Cols(args.self) = 2
    /\ Len(args.other) = 2
    /\ ret = Err(IncompatibleAddMatrix(<<2, 2>>, <<1, 2>>))

\* the entries of a matrix, as (row, column) pairs
Entries(m) == {<<i, j>> \in (1..Rows(m)) \X (1..Cols(m)) : TRUE}
IsNegative(x) == FLt(x, F(0))

\* relu(A, alpha) has the shape of A, multiplies every entry below zero by
\* alpha and leaves every other entry (NaN included) as it is
ReluEntrywise ==
    op = "relu" =>
        /\ IsOk(ret)
        /\ HasShape(ret.v, Rows(args.self), Cols(args.self))
        /\ \A e \in Entries(args.self) :
              LET x == args.self[e[1]][e[2]]
                  r == ret.v[e[1]][e[2]]
              IN  IF IsNegative(x) THEN r = FMul(x, args.alpha) ELSE r = x

\* C11 as stated: relu(A, alpha) has the shape of A, multiplies every entry
\* below zero by alpha and leaves every entry at or above zero unchanged, so
\* relu(A, 0) turns every negative entry into zero and relu(A, 1) equals A.
C11_ReluZeroesNegatives ==
    /\ ReluEntrywise
    /\ (op = "relu" /\ args.alpha = F(1)) => ret.v = args.self
    /\ (op = "relu" /\ args.alpha = F(0)) =>
          \A e \in Entries(args.self) :
              IsNegative(args.self[e[1]][e[2]]) => ret.v[e[1]][e[2]] = F(0)

\* C11 amended: the same, but relu(A, 0) turns every finite negative entry
\* into zero and turns negative infinity into NaN (-inf * 0.0).
C11_ReluZeroesFiniteNegatives ==
    /\ ReluEntrywise
    /\ (op = "relu" /\ args.alpha = F(1)) => ret.v = args.self
    /\ (op = "relu" /\ args.alpha = F(0)) =>
          \A e \in Entries(args.self) :
              LET x == args.self[e[1]][e[2]]
              IN  IsNegative(x) =>
                    ret.v[e[1]][e[2]] = (IF x.c = "fin" THEN F(0) ELSE NaN)

\* relu with alpha 0 of a matrix holding negative infinity
C11_Witness ==
    /\ op = "relu"
    /\ args.alpha = F(0)
    /\ args.self = <<<<NInf, NaN>>>>
    /\ ret = Ok(<<<<NaN, NaN>>>>)

\* transpose(A) holds A[i][k] at [k][i] and has the columns of A as rows
TransposeSwaps ==
    op = "transpose" =>
        /\ HasShape(ret.v, Cols(args.self), Rows(args.self))
        /\ \A e \in Entries(args.self) :
              ret.v[e[2]][e[1]] = args.self[e[1]][e[2]]

\* dot(transpose(B), transpose(A)) for the operands of the dot that ran
DotOfTransposed == Dot(Transpose(args.other), Transpose(args.self))

\* C12: whenever dot(A, B) succeeds, transpose(dot(A, B)) equals
\* dot(transpose(B), transpose(A)); transpose(A) holds A[i][k] at [k][i] and
\* turns the shape [W, H] into [H, W].
C12_TransposeOfDot ==
    /\ TransposeSwaps
    /\ (op = "dot" /\ IsOk(ret)) => DotOfTransposed = Ok(Transpose(ret.v))

\* the same identity for operands that have at least one column each
C12_TransposeOfDotWide ==
    /\ TransposeSwaps
    /\ (op = "dot" /\ IsOk(ret) /\ Cols(args.self) > 0 /\ Cols(args.other) > 0)
          => DotOfTransposed = Ok(Transpose(ret.v))

\* a 2 x 2 matrix times a 2 x 0 one: the product has no columns, and the
\* transpose of the 2 x 0 operand has lost its width
C12_Diverges ==
    /\ op = "dot"
    /\ Size(args.self) = <<2, 2>>
    /\ args.other = << <<>>, <<>> >>
    /\ ret = Ok(<< <<>>, <<>> >>)
    /\ Transpose(ret.v) = <<>>
    /\ DotOfTransposed = Err(IncompatibleDotMatrix(<<0, 0>>, <<2, 2>>))

(* ---------------------------------------------------------------------- *)
(* The offline model compiler: build.rs                                    *)
(* ---------------------------------------------------------------------- *)
\* the most registry entries (built-in and custom) one build reads
MaxModels == 4

\* a vector of n elements
Vec(n) == [i \in 1..n |-> i]

\* a decoded model file: `fields` names and the three bias vectors (the
\* checks of into_src read nothing else)
RawModel(i, l0, l1, o) ==
    [fields |-> Vec(i),
     weights |-> [l0_bias |-> Vec(l0), l1_bias |-> Vec(l1), l2_bias |-> Vec(o)]]

\* a file that File::open or serde_cbor::from_reader rejects
Unreadable == [fields |-> "unreadable"]

ValidModels == {RawModel(20, 4, 4, 1), RawModel(3, 5, 5, 1), RawModel(2, 2, 2, 1)}
RejectedModels ==
    {RawModel(20, 4, 3, 1), RawModel(20, 4, 4, 2), RawModel(2, 3, 3, 0),
     RawModel(20, 5, 4, 0)}
ModelFiles == ValidModels \cup RejectedModels \cup {Unreadable}

DefaultModels == <<"test_model", "low", "high">>
\* names given in CUSTOM_FEE_MODELS
CustomModels == <<"custom_a", "custom_b", "custom_c">>
\* the name of the i-th registry entry: the built-in ones, then the custom
ModelName(i) == (DefaultModels \o CustomModels)[i]

HiddenMessage == "Layer 0 and Layer 1 must have the same number of neurons. Found"
OutputMessage == "Layer 2 should only have one output. Found"

\* mutant: the two hidden layers are never compared
HiddenMismatchNever(l0_size, l1_size) == FALSE

HiddenMismatch(l0_size, l1_size) == l0_size # l1_size

\* mutant: only more than one output is refused
MultiOutputAboveOne(o_size) == o_size > 1

MultiOutput(o_size) == o_size # 1

\* the vector embedded by compress_buffer (4 bytes an element) and read back
\* by the emitted decompress_buffer (data.len() / 4 elements)
Embedded(v) == [i \in 1..((4 * Len(v)) \div 4) |-> v[i]]

WeightsIntoSrc(weights) ==
    [l0_bias |-> Embedded(weights.l0_bias),
     l1_bias |-> Embedded(weights.l1_bias),
     l2_bias |-> Embedded(weights.l2_bias)]

\* ModelData::into_src: the two checks, then the sizes the model needs and
\* the source of get_model_{name}() -> ModelData<Size{i}, Size{n}, Size{o}>
IntoSrc(self, model_name) ==
    LET i_size == Len(self.fields)
        l0_size == Len(self.weights.l0_bias)
        l1_size == Len(self.weights.l1_bias)
        o_size == Len(self.weights.l2_bias)
    IN  IF HiddenMismatch(l0_size, l1_size)
        THEN Panic(<<HiddenMessage, l0_size, l1_size>>)
        ELSE IF MultiOutput(o_size)
        THEN Panic(<<OutputMessage, o_size>>)
        ELSE Ok([req_sizes |-> {i_size, l0_size, o_size},
                 src |-> [name |-> model_name,
                          i_size |-> i_size,
                          n_size |-> l0_size,
                          o_size |-> o_size,
                          weights |-> WeightsIntoSrc(self.weights)]])

\* add_model: `?` returns the error of opening or decoding the file
AddModel(file, model_name) ==
    IF file = Unreadable THEN Err("decode") ELSE IntoSrc(file, model_name)

\* the sizes every build starts from
BaselineSizes == {1, 2, 4, 8, 16, 20, 32, 64, 128, 256, 512}

\* mutant: the sizes of the last model replace the set
ExtendReplace(sizes, req_sizes) == req_sizes

\* sizes.extend(req_sizes) on a HashSet
Extend(sizes, req_sizes) == sizes \cup req_sizes

\* emit_sizes_src: one `enum Size{s}` for every element of the set, as the
\* bag of the sizes that have an enum in sizes.rs
EmitSizesSrc(sizes) == SetToBag(sizes)

\* sizes.rs before fs::write
NotWritten == [written |-> FALSE]
Written(content) == [written |-> TRUE, content |-> content]

BuildOps == {"main", "add_model", "emit_sizes"}
IsBuild == op \in BuildOps

\* main up to the loop: the registry has `total` entries, models.rs is
\* created empty and sizes.rs is not written
InitBuild ==
    /\ low = ModelLow
    /\ high = ModelHigh
    /\ op = "main"
    /\ args = <<>>
    /\ \E total \in Len(DefaultModels)..MaxModels :
          ret = [status |-> "running",
                 total |-> total,
                 done |-> 0,
                 sizes |-> BaselineSizes,
                 models_file |-> <<>>,
                 sizes_file |-> NotWritten,
                 failure |-> Ok(<<>>)]
    /\ calls = <<>>
    /\ trace = <<>>
    /\ chain = 0

\* one turn of the loop of main over the registry: add_model, then the write
\* to models.rs and sizes.extend; an error or a panic of add_model ends main
AddModelOp ==
    \E file \in ModelFiles :
        LET name == ModelName(ret.done + 1)
            added == AddModel(file, name)
        IN  /\ IsBuild
            /\ ret.status = "running"
            /\ ret.done < ret.total
            /\ op' = "add_model"
            /\ args' = [file |-> file, name |-> name]
            /\ ret' = IF IsOk(added)
                      THEN [ret EXCEPT
                              !.done = @ + 1,
                              !.models_file = Append(@, added.v.src),
                              !.sizes = Extend(@, added.v.req_sizes)]
                      ELSE [ret EXCEPT
                              !.status = IF IsErr(added) THEN "error" ELSE "panic",
                              !.failure = added]
            /\ UNCHANGED <<low, high, calls, trace, chain>>

\* after the loop: fs::write(&sizes_path, emit_sizes_src(&sizes)), Ok(())
EmitSizesOp ==
    /\ IsBuild
    /\ ret.status = "running"
    /\ ret.done = ret.total
    /\ op' = "emit_sizes"
    /\ args' = [sizes |-> ret.sizes]
    /\ ret' = [ret EXCEPT !.status = "ok",
                          !.sizes_file = Written(EmitSizesSrc(ret.sizes))]
    /\ UNCHANGED <<low, high, calls, trace, chain>>

NextBuild ==
    \/ AddModelOp
    \/ EmitSizesOp

SpecBuild == InitBuild /\ [][NextBuild]_vars

(* ---------------------------------------------------------------------- *)
(* Properties of the model compiler (SpecBuild)                            *)
(* ---------------------------------------------------------------------- *)
\* add_model has just read a file that decoded
ReadModel == op = "add_model" /\ args.file # Unreadable
L0Size == Len(args.file.weights.l0_bias)
L1Size == Len(args.file.weights.l1_bias)
OSize == Len(args.file.weights.l2_bias)
Emitted == {ret.models_file[i] : i \in 1..Len(ret.models_file)}
EmittedNames == {m.name : m \in Emitted}

\* C13: a model whose layer-0 bias length differs from its layer-1 bias
\* length is refused with the fatal hidden-size failure that reports both
\* lengths, and no constructor is written for it; a constructor that is
\* written embeds the bias vectors of its file at their full length.
C13_HiddenSizeMismatch ==
    /\ (ReadModel /\ L0Size # L1Size) =>
          /\ ret.status = "panic"
          /\ ret.failure = Panic(<<HiddenMessage, L0Size, L1Size>>)
          /\ args.name \notin EmittedNames
    /\ IsBuild =>
          \A m \in Emitted :
              /\ Len(m.weights.l0_bias) = m.n_size
              /\ Len(m.weights.l1_bias) = m.n_size
    /\ (ReadModel /\ ret.status = "running") =>
          LET m == ret.models_file[Len(ret.models_file)]
          IN  /\ m.name = args.name
              /\ m.weights = args.file.weights

\* the second model of a build has 4 and 3 neurons in its hidden layers
C13_Witness ==
    /\ ReadModel
    /\ args.name = "low"
    /\ L0Size = 4
    /\ L1Size = 3
    /\ ret.failure = Panic(<<HiddenMessage, 4, 3>>)
    /\ EmittedNames = {"test_model"}

\* the build has stopped at a model
Aborted == IsBuild /\ ret.status \in {"panic", "error"}
\* what holds of a build that stopped: the model it stopped at is the one
\* after the `done` constructors written so far and has none itself, and
\* sizes.rs is not written
AbortedAtModel ==
    Aborted =>
        /\ op = "add_model"
        /\ args.name = ModelName(ret.done + 1)
        /\ Len(ret.models_file) = ret.done
        /\ args.name \notin EmittedNames
        /\ ret.sizes_file = NotWritten
\* a build that stopped takes no further step
AbortIsFinal == [][~Aborted]_vars

\* C14 as stated: every model whose layer-2 bias length O is not 1 is refused
\* with the fatal multi-output failure that reports O; a build that fails a
\* check stops at that model: no constructor for it, no later model, no
\* sizes.rs.
C14_MultiOutputAlways ==
    /\ [](ReadModel /\ OSize # 1 =>
            /\ ret.status = "panic"
            /\ ret.failure = Panic(<<OutputMessage, OSize>>))
    /\ []AbortedAtModel
    /\ AbortIsFinal

\* C14 amended: the multi-output failure is the one reported when the two
\* hidden layers agree; a model that fails both checks is refused with the
\* hidden-size failure, which is checked first.
C14_MultiOutput ==
    /\ [](ReadModel /\ OSize # 1 =>
            /\ ret.status = "panic"
            /\ ret.failure = (IF L0Size = L1Size
                              THEN Panic(<<OutputMessage, OSize>>)
                              ELSE Panic(<<HiddenMessage, L0Size, L1Size>>)))
    /\ []AbortedAtModel
    /\ AbortIsFinal

\* the third model of a build has no output at all
C14_Witness ==
    /\ ReadModel
    /\ args.name = "high"
    /\ L0Size = L1Size
    /\ OSize = 0
    /\ ret.failure = Panic(<<OutputMessage, 0>>)
    /\ Len(ret.models_file) = 2
    /\ ret.sizes_file = NotWritten

\* the sizes of the constructors written so far
EmittedSizes == UNION {{m.i_size, m.n_size, m.o_size} : m \in Emitted}

\* C15: the set of sizes is the baseline joined with I, N and O of every
\* model processed; sizes.rs holds every size of the set exactly once; a step
\* never removes a size, and a model whose sizes are all present leaves the
\* set as it is.
C15_SizesAreUnion ==
    /\ [](IsBuild => ret.sizes = BaselineSizes \cup EmittedSizes)
    /\ [](IsBuild /\ ret.status = "ok" =>
            /\ ret.sizes_file.written
            /\ BagToSet(ret.sizes_file.content) = ret.sizes
            /\ \A s \in ret.sizes : CopiesIn(s, ret.sizes_file.content) = 1)
    /\ [][IsBuild =>
            /\ ret.sizes \subseteq ret'.sizes
            /\ (ReadModel' /\ ret'.status = "running"
                  /\ {Len(args'.file.fields), L0Size', OSize'} \subseteq ret.sizes)
                  => ret'.sizes = ret.sizes]_vars

\* a finished build of three models: one needs only baseline sizes, the
\* others bring 3 and 5
C15_Witness ==
    /\ op = "emit_sizes"
    /\ ret.status = "ok"
    /\ Len(ret.models_file) = 3
    /\ ret.models_file[1].n_size = 4
    /\ ret.models_file[2].n_size = 2
    /\ ret.sizes = BaselineSizes \cup {3, 5}
    /\ CopiesIn(5, ret.sizes_file.content) = 1

(* ---------------------------------------------------------------------- *)
(* The block scanner: process_blocks.rs                                    *)
(* ---------------------------------------------------------------------- *)
\* the blocks of one window: [Block; 10]
WindowLen == 10
\* the most blocks of a window that do not name their predecessor, and the
\* most that hold more than one transaction
MaxBreaks == 1
MaxBusy == 2

\* header.block_hash(): the hash stands for the header it was computed from
BlockHash(header) == header.id

\* header.time of the i-th block of a window: all different, not in order
TimeOf(i) == 1000 + 600 * ((7 * i) % WindowLen)

\* the i-th block of a window; a block in `breaks` names itself (even i) or
\* the block two places back (odd i) as its predecessor, a block in `busy`
\* holds 2 or 3 transactions and any other block 0 or 1
BlockAt(i, breaks, busy) ==
    [header |-> [id |-> i,
                 prev_blockhash |-> IF i \notin breaks THEN i - 1
                                    ELSE IF i % 2 = 0 THEN i ELSE i - 2,
                 time |-> TimeOf(i)],
     txdata |-> [k \in 1..((i % 2) + (IF i \in busy THEN 2 ELSE 0)) |-> <<i, k>>]]

Window(breaks, busy) == [i \in 1..WindowLen |-> BlockAt(i, breaks, busy)]

\* ten copies of one block, as in tests::test_blocks
Repeated(block) == [i \in 1..WindowLen |-> block]

Windows ==
    {Window(breaks, busy) :
        breaks \in {b \in SUBSET (2..WindowLen) : Cardinality(b) <= MaxBreaks},
        busy \in {b \in SUBSET (1..WindowLen) : Cardinality(b) <= MaxBusy}}
    \cup {Repeated(BlockAt(1, {}, {})), Repeated(BlockAt(2, {2}, {2}))}

UnconnectedBlocks == "UnconnectedBlocks"
LastTsMissing == "LastTsMissing"

\* mutant: any predecessor is accepted
UnlinkedNever(prev, block) == FALSE

\* prev != block.header.prev_blockhash
Unlinked(prev, block) == prev # block.header.prev_blockhash

RECURSIVE Links(_, _, _)
\* the first loop of from_blocks, from the i-th block on
Links(blocks, i, prev) ==
    IF i > Len(blocks) THEN Ok(<<>>)
    ELSE IF Unlinked(prev, blocks[i]) THEN Err(UnconnectedBlocks)
    ELSE Links(blocks, i + 1, BlockHash(blocks[i].header))

\* Option<u32>
None == <<>>
Some(x) == <<x>>

\* mutant: every block with more than one transaction sets the time
TakeTimeLast(block, time) ==
    IF Len(block.txdata) > 1 THEN Some(block.header.time) ELSE time

\* if block.txdata.len() > 1 && time.is_none() { time = Some(header.time) }
TakeTime(block, time) ==
    IF Len(block.txdata) > 1 /\ time = None
    THEN Some(block.header.time)
    ELSE time

RECURSIVE Collect(_, _, _, _)
\* the second loop of from_blocks, from the i-th block on
Collect(blocks, i, txs, time) ==
    IF i > Len(blocks) THEN [txs |-> txs, time |-> time]
    ELSE Collect(blocks, i + 1,
                 txs \cup {blocks[i].txdata[k] : k \in 1..Len(blocks[i].txdata)},
                 TakeTime(blocks[i], time))

\* Transactions::from_txs
FromTxs(txs, last_block_ts) == [txs |-> txs, last_block_ts |-> last_block_ts]

\* Transactions::from_blocks
FromBlocks(blocks) ==
    LET linked == Links(blocks, 2, BlockHash(blocks[1].header))
        found == Collect(blocks, 1, {}, None)
    IN  IF IsErr(linked) THEN linked
        ELSE IF found.time = None THEN Err(LastTsMissing)
        ELSE Ok(FromTxs(found.txs, found.time[1]))

\* a window of blocks has arrived
InitScan ==
    /\ low = ModelLow
    /\ high = ModelHigh
    /\ op = "blocks"
    /\ \E blocks \in Windows : args = [blocks |-> blocks]
    /\ ret = Ok(<<>>)
    /\ calls = <<>>
    /\ trace = <<>>
    /\ chain = 0

FromBlocksOp ==
    /\ op = "blocks"
    /\ op' = "from_blocks"
    /\ ret' = FromBlocks(args.blocks)
    /\ UNCHANGED <<low, high, args, calls, trace, chain>>

\* Transactions::last_block_ts on what from_blocks returned
LastBlockTsOp ==
    /\ op = "from_blocks"
    /\ IsOk(ret)
    /\ op' = "last_block_ts"
    /\ ret' = Ok(ret.v.last_block_ts)
    /\ UNCHANGED <<low, high, args, calls, trace, chain>>

NextScan ==
    \/ FromBlocksOp
    \/ LastBlockTsOp

SpecScan == InitScan /\ [][NextScan]_vars

(* ---------------------------------------------------------------------- *)
(* Properties of the block scanner (SpecScan)                              *)
(* ---------------------------------------------------------------------- *)
\* the blocks, after the first, that do not name the block before them
Breaks ==
    {i \in 2..Len(args.blocks) :
        args.blocks[i].header.prev_blockhash
            # BlockHash(args.blocks[i - 1].header)}
\* the blocks with more than one transaction
Busy == {i \in 1..Len(args.blocks) : Len(args.blocks[i].txdata) > 1}

\* C16: from_blocks returns UnconnectedBlocks iff some block after the first
\* does not name the hash of the block before it; for a connected window it
\* returns LastTsMissing iff no block has more than one transaction, and
\* succeeds otherwise; the links are checked first.
C16_ScanOutcome ==
    op = "from_blocks" =>
        /\ ret = Err(UnconnectedBlocks) <=> Breaks # {}
        /\ Breaks = {} => (ret = Err(LastTsMissing) <=> Busy = {})
        /\ (Breaks = {} /\ Busy # {}) => IsOk(ret)

\* a window broken at one block in which no block has two transactions
C16_Witness ==
    /\ op = "from_blocks"
    /\ Cardinality(Breaks) = 1
    /\ Busy = {}
    /\ ret = Err(UnconnectedBlocks)

\* the first block of the window with more than one transaction
Earliest == CHOOSE i \in Busy : \A j \in Busy : i <= j

\* C17: on success the last-block timestamp is the header time of the
\* earliest block with more than one transaction, whatever later blocks hold.
C17_EarliestBusyBlock ==
    /\ (op = "from_blocks" /\ IsOk(ret)) =>
          ret.v.last_block_ts = args.blocks[Earliest].header.time
    /\ op = "last_block_ts" =>
          ret = Ok(args.blocks[Earliest].header.time)

\* two blocks qualify and the later one has the smaller header time
C17_Witness ==
    /\ op = "last_block_ts"
    /\ Busy = {4, 5}
    /\ args.blocks[5].header.time < args.blocks[4].header.time
    /\ ret = Ok(args.blocks[4].header.time)

(* ---------------------------------------------------------------------- *)
(* The histogram of fee rates: fee_bucket.rs, FeeModel::estimate           *)
(* ---------------------------------------------------------------------- *)
\* the most fee rates one call is given
MaxRates == 2

\* an f64 is held in units of 1/65536: 1.5 to the power of 1 to 16, the
\* limits of FeeBuckets::new(50, 500.0), are whole numbers of units
Unit == 65536
Whole(x) == F(x * Unit)

\* the arguments of FeeBuckets::new in FeeModel::estimate
IncrementPercent == 50
UpperLimit == 500

\* current_value *= 1.0 + increment_percent / 100.0, without leaving 32 bits
Grow(v, increment_percent) ==
    ((v \div 100) * (100 + increment_percent))
        + (((v % 100) * (100 + increment_percent)) \div 100)

RECURSIVE LimitsFrom(_, _, _, _)
\* the loop of create_buckets_limits
LimitsFrom(current_value, increment_percent, upper_limit, buckets_limits) ==
    IF current_value >= upper_limit * Unit THEN buckets_limits
    ELSE LET next == Grow(current_value, increment_percent)
         IN  LimitsFrom(next, increment_percent, upper_limit,
                        Append(buckets_limits, F(next)))

CreateBucketsLimits(increment_percent, upper_limit) ==
    LimitsFrom(Unit, increment_percent, upper_limit, <<>>)

\* FeeBuckets::new
FeeBucketsNew(increment_percent, upper_limit) ==
    [buckets_limits |-> CreateBucketsLimits(increment_percent, upper_limit)]

\* mutant: a rate that no limit exceeds is counted past the last bucket
PositionOrEnd(buckets_limits, rate) ==
    LET above == {i \in 1..Len(buckets_limits) : FLt(rate, buckets_limits[i])}
    IN  IF above = {} THEN Len(buckets_limits) + 1
        ELSE CHOOSE i \in above : \A j \in above : i <= j

\* iter().position(|e| e > rate).unwrap_or(len() - 1), counted from 1
Position(buckets_limits, rate) ==
    LET above == {i \in 1..Len(buckets_limits) : FLt(rate, buckets_limits[i])}
    IN  IF above = {} THEN Len(buckets_limits)
        ELSE CHOOSE i \in above : \A j \in above : i <= j

RECURSIVE Count(_, _, _, _)
\* the loop of FeeBuckets::get, from the k-th rate on; an index past the
\* vector panics
Count(buckets_limits, rates, k, buckets) ==
    IF k > Len(rates) THEN Ok(buckets)
    ELSE LET index == Position(buckets_limits, rates[k])
         IN  IF index \notin 1..Len(buckets)
             THEN Panic("index out of bounds")
             ELSE Count(buckets_limits, rates, k + 1,
                        [buckets EXCEPT ![index] = @ + 1])

\* FeeBuckets::get
Get(self, rates) ==
    Count(self.buckets_limits, rates, 1,
          [i \in 1..Len(self.buckets_limits) |-> 0])

\* fee rates: below every limit, on a limit, between limits, on the last
\* limit but one, at and above the upper limit, and the values that compare
\* with nothing
Rates ==
    {Whole(-1), Whole(1), F(Unit + (Unit \div 2)), Whole(10), F(28697814),
     Whole(500), F(43046721), NaN, PInf, NInf}

RECURSIVE SeqsUpTo(_, _)
\* the sequences over S of at most n elements
SeqsUpTo(S, n) ==
    IF n = 0 THEN {<<>>}
    ELSE LET shorter == SeqsUpTo(S, n - 1)
         IN  shorter \cup {Append(q, x) : q \in shorter, x \in S}

\* FeeModel::estimate is called with fee_rates
InitBuckets ==
    /\ low = ModelLow
    /\ high = ModelHigh
    /\ op = "fee_rates"
    /\ \E fee_rates \in SeqsUpTo(Rates, MaxRates) : args = [fee_rates |-> fee_rates]
    /\ ret = Ok(<<>>)
    /\ calls = <<>>
    /\ trace = <<>>
    /\ chain = 0

\* the first line of estimate: FeeBuckets::new(50, 500.0).get(fee_rates)
GetOp ==
    /\ op = "fee_rates"
    /\ op' = "get"
    /\ ret' = Get(FeeBucketsNew(IncrementPercent, UpperLimit), args.fee_rates)
    /\ UNCHANGED <<low, high, args, calls, trace, chain>>

\* the second line of estimate: estimate_with_buckets on the histogram
EstimateOp ==
    \E block_target \in 1..MaxTarget, timestamp \in Timestamps,
       last_block_ts \in LastBlockTs :
        LET run == EstimateRun(low, high, block_target, <<timestamp>>,
                               timestamp, ret.v, last_block_ts)
        IN  /\ op = "get"
            /\ IsOk(ret)
            /\ op' = "estimate"
            /\ args' = [fee_rates |-> args.fee_rates, fee_buckets |-> ret.v,
                        block_target |-> block_target,
                        timestamp |-> <<timestamp>>,
                        last_block_ts |-> last_block_ts]
            /\ ret' = run.ret
            /\ calls' = run.calls
            /\ trace' = run.trace
            /\ UNCHANGED <<low, high, chain>>

NextBuckets ==
    \/ GetOp
    \/ EstimateOp

SpecBuckets == InitBuckets /\ [][NextBuckets]_vars

(* ---------------------------------------------------------------------- *)
(* Properties of the histogram (SpecBuckets)                               *)
(* ---------------------------------------------------------------------- *)
\* 1.5 to the power of i, in units
Power15(i) == F((Unit \div (2 ^ i)) * (3 ^ i))

\* the bucket of a rate: the first whose limit 1.5^i exceeds it, the last
\* of the 16 when none does
BucketOf(rate) ==
    IF \E i \in 1..16 : FLt(rate, Power15(i))
    THEN CHOOSE i \in 1..16 :
            /\ FLt(rate, Power15(i))
            /\ \A j \in 1..(i - 1) : ~FLt(rate, Power15(j))
    ELSE 16

RECURSIVE Total(_)
Total(buckets) ==
    IF buckets = <<>> THEN 0 ELSE Head(buckets) + Total(Tail(buckets))

\* C18: for every sequence of fee rates the histogram has exactly 16 buckets
\* whose counts add up to the number of rates, each rate counted once in the
\* first bucket whose limit exceeds it or in the last bucket when none does;
\* estimate then reads its buckets 0 to 15 within range.
C18_HistogramCountsEveryRate ==
    /\ op = "get" =>
          /\ IsOk(ret)
          /\ Len(ret.v) = 16
          /\ Total(ret.v) = Len(args.fee_rates)
          /\ \A i \in 1..16 :
                ret.v[i] = Cardinality({k \in 1..Len(args.fee_rates) :
                                            BucketOf(args.fee_rates[k]) = i})
    /\ op = "estimate" =>
          /\ Len(args.fee_buckets) = 16
          /\ ret.tag # "Panic"

\* a NaN rate and a rate above the upper limit both land in the last bucket
C18_Witness ==
    /\ op = "estimate"
    /\ args.fee_rates = <<NaN, F(43046721)>>
    /\ args.fee_buckets = [i \in 1..16 |-> IF i = 16 THEN 2 ELSE 0]
    /\ IsOk(ret)

====
